---------------------------- MODULE Spec2Model ----------------------------
(* Model of pants' Scala dependency-inference parser glue                  *)
(* (src/python/pants/backend/scala/dependency_inference/scala_parser.py):  *)
(* the ScalaImport / ScalaSourceDependencyAnalysis data model, its JSON    *)
(* (de)serialisation, the fully_qualified_consumed_symbols resolver, and   *)
(* the two rules analyze_scala_source_dependencies and                     *)
(* resolve_fallible_result_to_analysis.                                    *)
(*                                                                         *)
(* Representation.  A Python str is a sequence of one-character strings,   *)
(* so that startswith, "." in s, f"{a}.{b}" and sorted() are computed and  *)
(* not assumed.  A dict / FrozenDict is a sequence of [key, value] pairs   *)
(* with distinct keys in insertion order.  A FrozenOrderedSet is a         *)
(* duplicate-free sequence in insertion order.  A Python set is a small    *)
(* open-addressing hash table whose iteration order depends on the         *)
(* interpreter's string-hash seed.                                         *)
EXTENDS Integers, Sequences, FiniteSets

VARIABLES
    source_files,     \* SourceFiles.files handed to analyze_scala_source_dependencies
    pc,               \* position of the pipeline (which rule, which await)
    requests,         \* engine requests (Get) issued so far, in order
    fallible_result,  \* FallibleScalaSourceDependencyAnalysisResult.process_result
    error,            \* the exception raised, if any
    analysis,         \* the ScalaSourceDependencyAnalysis, once deserialised
    hash_seed,        \* string-hash seed of the running interpreter
    observed,         \* candidate sequences produced so far for `analysis`
    transport,        \* transport record under (de)serialisation
    debug_json        \* result of to_debug_json_dict

vars == <<source_files, pc, requests, fallible_result, error, analysis,
          hash_seed, observed, transport, debug_json>>

None == [type |-> "None"]

-----------------------------------------------------------------------------
(* Bounds of the model.                                                    *)

\* Items (dict keys and list elements) in one parser output of the pipeline.
MaxItems == 5
\* Items in one transport record of the round-trip specification.
MaxRoundTripItems == 5
\* source_files.files holds 0..MaxFiles files.
MaxFiles == 2
\* The parser process exits with a code in 0..MaxExitCode.
MaxExitCode == 2
\* String-hash seeds 0..MaxSeed.
MaxSeed == 1
\* Resolutions of one analysis that are observed.
MaxResolutions == 2

-----------------------------------------------------------------------------
(* Strings.                                                                *)

Dot == <<".">>

\* Code point of a character: Python orders str by code point.
Ord(ch) ==
    CASE ch = "." -> 46
      [] ch = "P" -> 80
      [] ch = "Q" -> 81
      [] ch = "a" -> 97
      [] ch = "b" -> 98
      [] ch = "c" -> 99
      [] ch = "f" -> 102
      [] ch = "x" -> 120
      [] ch = "y" -> 121
      [] ch = "z" -> 122

\* str.startswith: raw textual prefix.
StartsWith(s, prefix) ==
    /\ Len(prefix) <= Len(s)
    /\ \A i \in 1..Len(prefix) : s[i] = prefix[i]

\* "." in symbol
ContainsDot(s) == \E i \in 1..Len(s) : s[i] = "."

\* f"{qualifier}.{symbol}"
Qualify(qualifier, symbol) == qualifier \o Dot \o symbol

\* Python's str < str: lexicographic by code point, a proper prefix is smaller.
StrLess(s, t) ==
    \E k \in 1..(Len(t)) :
        /\ \A i \in 1..(k - 1) : i <= Len(s) /\ s[i] = t[i]
        /\ \/ Len(s) = k - 1
           \/ Len(s) >= k /\ Ord(s[k]) < Ord(t[k])

-----------------------------------------------------------------------------
(* Collections.                                                            *)

Range(seq) == {seq[i] : i \in 1..Len(seq)}

RECURSIVE FrozenOrderedSet(_)
\* FrozenOrderedSet(iterable): drops repeats, keeps the order of first appearance.
FrozenOrderedSet(xs) ==
    IF xs = <<>> THEN <<>>
    ELSE LET init == FrozenOrderedSet(SubSeq(xs, 1, Len(xs) - 1))
             last == xs[Len(xs)]
         IN  IF last \in Range(init) THEN init ELSE Append(init, last)

RECURSIVE InsertSorted(_, _)
InsertSorted(x, ys) ==
    IF ys = <<>> THEN <<x>>
    ELSE IF StrLess(x, ys[1]) THEN <<x>> \o ys
    ELSE <<ys[1]>> \o InsertSorted(x, Tail(ys))

\* A serialiser that forgets to sort: the set's own order is rendered.
sorted_unsorted(xs) == xs

RECURSIVE sorted(_)
\* sorted(list(v)) on a list of str (stable, ascending).
sorted(xs) ==
    IF xs = <<>> THEN <<>>
    ELSE InsertSorted(xs[Len(xs)], sorted(SubSeq(xs, 1, Len(xs) - 1)))

-----------------------------------------------------------------------------
(* ScalaImport and ScalaSourceDependencyAnalysis: (de)serialisation.       *)

RequiredKeys ==
    {"providedSymbols", "providedSymbolsEncoded", "importsByScope",
     "consumedSymbolsByScope", "scopes"}

\* ScalaImport.from_json_dict
ScalaImport_from_json_dict(data) ==
    [name |-> data.name, is_wildcard |-> data.isWildcard]

\* ScalaImport.to_debug_json_dict
ScalaImport_to_debug_json_dict(imp) ==
    [name |-> imp.name, is_wildcard |-> imp.is_wildcard]

\* d[key] raises KeyError when a required field is absent.
RaisesKeyError(d) == ~(RequiredKeys \subseteq DOMAIN d)

\* ScalaSourceDependencyAnalysis.from_json_dict (d holds every required key)
from_json_dict(d) ==
    [provided_symbols |-> FrozenOrderedSet(d.providedSymbols),
     provided_symbols_encoded |-> FrozenOrderedSet(d.providedSymbolsEncoded),
     imports_by_scope |->
        [i \in 1..Len(d.importsByScope) |->
            [key |-> d.importsByScope[i].key,
             value |-> [j \in 1..Len(d.importsByScope[i].value) |->
                          ScalaImport_from_json_dict(d.importsByScope[i].value[j])]]],
     consumed_symbols_by_scope |->
        [i \in 1..Len(d.consumedSymbolsByScope) |->
            [key |-> d.consumedSymbolsByScope[i].key,
             value |-> FrozenOrderedSet(d.consumedSymbolsByScope[i].value)]],
     scopes |-> FrozenOrderedSet(d.scopes)]

\* ScalaSourceDependencyAnalysis.to_debug_json_dict
to_debug_json_dict(self) ==
    [provided_symbols |-> self.provided_symbols,
     provided_symbols_encoded |-> self.provided_symbols_encoded,
     imports_by_scope |->
        [i \in 1..Len(self.imports_by_scope) |->
            [key |-> self.imports_by_scope[i].key,
             value |-> [j \in 1..Len(self.imports_by_scope[i].value) |->
                          ScalaImport_to_debug_json_dict(self.imports_by_scope[i].value[j])]]],
     consumed_symbols_by_scope |->
        [i \in 1..Len(self.consumed_symbols_by_scope) |->
            [key |-> self.consumed_symbols_by_scope[i].key,
             value |-> sorted(self.consumed_symbols_by_scope[i].value)]],
     scopes |-> self.scopes]

-----------------------------------------------------------------------------
(* A Python set of ScalaImport: iteration order.                           *)
(* The resolver gathers the wildcard imports in a set comprehension and    *)
(* iterates it.  CPython's set is an open-addressing table (8 slots while  *)
(* it holds fewer than 5 entries) iterated in slot order; an entry's slot  *)
(* comes from its hash, and the hash of a str depends on the interpreter's *)
(* hash seed (PYTHONHASHSEED, random per process by default).  The hash    *)
(* and the probe sequence below are stand-ins with the same structure: a   *)
(* seeded hash of the name, combined with the flag, reduced to a slot,     *)
(* next free slot on collision.                                            *)

RECURSIVE StrHash(_, _)
\* hash(str) under a given seed.
StrHash(seed, s) ==
    IF s = <<>> THEN seed
    ELSE (StrHash(seed, SubSeq(s, 1, Len(s) - 1)) * 31 + Ord(s[Len(s)])) % 65536

\* hash(ScalaImport) = hash((name, is_wildcard)) for a frozen dataclass.
ImportHash(seed, imp) ==
    (StrHash(seed, imp.name) * 3 + (IF imp.is_wildcard THEN 1 ELSE 0)) % 65536

SetSlots == 0..7

EmptySet == [slot \in SetSlots |-> None]

RECURSIVE Probe(_, _, _)
\* The slot where x sits or will sit: first slot from `slot` on that is free or holds x.
Probe(table, x, slot) ==
    IF table[slot] = None \/ table[slot] = x THEN slot
    ELSE Probe(table, x, (slot + 1) % 8)

\* set.add(x)
SetAdd(table, seed, x) ==
    [table EXCEPT ![Probe(table, x, ImportHash(seed, x) % 8)] = x]

RECURSIVE SetFromSeq(_, _)
\* The set built by adding the elements of xs in order.
SetFromSeq(seed, xs) ==
    IF xs = <<>> THEN EmptySet
    ELSE SetAdd(SetFromSeq(seed, SubSeq(xs, 1, Len(xs) - 1)), seed, xs[Len(xs)])

RECURSIVE SetIterFrom(_, _)
SetIterFrom(table, slot) ==
    IF slot > 7 THEN <<>>
    ELSE (IF table[slot] = None THEN <<>> ELSE <<table[slot]>>)
         \o SetIterFrom(table, slot + 1)

\* for x in the_set: the entries in slot order.
SetIter(table) == SetIterFrom(table, 0)

-----------------------------------------------------------------------------
(* fully_qualified_consumed_symbols.                                       *)

IsWildcard(imp) == imp.is_wildcard

HasImports(item) == item.value # <<>>

\* A collector that keeps every import of a scope, wildcard or not.
WildcardImportsByScope_unfiltered(self) ==
    SelectSeq(self.imports_by_scope, HasImports)

\* wildcard_imports_by_scope: per declaring scope its wildcard imports, in
\* declaration order; scopes with none are omitted.
WildcardImportsByScope(self) ==
    SelectSeq(
        [i \in 1..Len(self.imports_by_scope) |->
            [key |-> self.imports_by_scope[i].key,
             value |-> SelectSeq(self.imports_by_scope[i].value, IsWildcard)]],
        HasImports)

\* A dot-segment-aware ancestor test: the prefix must end at a "." boundary.
ScopeStartsWith_segment_aware(scope, s) ==
    /\ StartsWith(scope, s)
    /\ Len(scope) = Len(s) \/ scope[Len(s) + 1] = "."

\* scope.startswith(s)
ScopeStartsWith(scope, s) == StartsWith(scope, s)

RECURSIVE InScopeWildcards(_, _, _)
\* The comprehension's elements in generation order: for each (s, imports)
\* of wildcard_imports_by_scope from index i on, each wi, if scope.startswith(s).
InScopeWildcards(wildcard_imports_by_scope, scope, i) ==
    IF i > Len(wildcard_imports_by_scope) THEN <<>>
    ELSE (IF ScopeStartsWith(scope, wildcard_imports_by_scope[i].key)
            THEN wildcard_imports_by_scope[i].value ELSE <<>>)
         \o InScopeWildcards(wildcard_imports_by_scope, scope, i + 1)

\* parent_scope_wildcards, as the sequence its iteration produces.
ParentScopeWildcards(wildcard_imports_by_scope, scope, seed) ==
    SetIter(SetFromSeq(seed, InScopeWildcards(wildcard_imports_by_scope, scope, 1)))

\* The bare symbol is yielded only when both conditions hold.
YieldsBare_both(self, symbol) == self.scopes = <<>> /\ ContainsDot(symbol)

\* not self.scopes or "." in symbol
YieldsBare(self, symbol) == self.scopes = <<>> \/ ContainsDot(symbol)

\* A body that qualifies a symbol with its consuming scope only.
YieldsForSymbol_own_scope(self, scope, symbol, parent_scope_wildcards) ==
    (IF scope \in Range(self.scopes) THEN <<Qualify(scope, symbol)>> ELSE <<>>)
    \o (IF YieldsBare(self, symbol) THEN <<symbol>> ELSE <<>>)
    \o [k \in 1..Len(parent_scope_wildcards) |->
          Qualify(parent_scope_wildcards[k].name, symbol)]

\* The body of `for symbol in consumed_symbols`: what it yields for one symbol
\* consumed in `scope`.  (The inner `for scope in self.scopes` rebinds the
\* local `scope`; nothing reads it again before the outer loop rebinds it.)
YieldsForSymbol(self, scope, symbol, parent_scope_wildcards) ==
    [k \in 1..Len(self.scopes) |-> Qualify(self.scopes[k], symbol)]
    \o (IF YieldsBare(self, symbol) THEN <<symbol>> ELSE <<>>)
    \o [k \in 1..Len(parent_scope_wildcards) |->
          Qualify(parent_scope_wildcards[k].name, symbol)]

RECURSIVE LoopSymbols_skip_repeat(_, _, _, _, _)
\* A loop that leaves out a symbol it has already met in an earlier scope.
LoopSymbols_skip_repeat(self, i, j, scope, parent_scope_wildcards) ==
    LET consumed_symbols == self.consumed_symbols_by_scope[i].value
    IN  IF j > Len(consumed_symbols) THEN <<>>
        ELSE (IF \E h \in 1..(i - 1) :
                    consumed_symbols[j] \in Range(self.consumed_symbols_by_scope[h].value)
                THEN <<>>
                ELSE YieldsForSymbol(self, scope, consumed_symbols[j], parent_scope_wildcards))
             \o LoopSymbols_skip_repeat(self, i, j + 1, scope, parent_scope_wildcards)

RECURSIVE LoopSymbols(_, _, _, _, _)
\* for symbol in consumed_symbols (of the i-th consuming scope), from index j on.
LoopSymbols(self, i, j, scope, parent_scope_wildcards) ==
    LET consumed_symbols == self.consumed_symbols_by_scope[i].value
    IN  IF j > Len(consumed_symbols) THEN <<>>
        ELSE YieldsForSymbol(self, scope, consumed_symbols[j], parent_scope_wildcards)
             \o LoopSymbols(self, i, j + 1, scope, parent_scope_wildcards)

RECURSIVE LoopScopes(_, _, _, _)
\* for scope, consumed_symbols in self.consumed_symbols_by_scope.items(), from index i on.
LoopScopes(self, wildcard_imports_by_scope, seed, i) ==
    IF i > Len(self.consumed_symbols_by_scope) THEN <<>>
    ELSE LET scope == self.consumed_symbols_by_scope[i].key
             parent_scope_wildcards ==
                 ParentScopeWildcards(wildcard_imports_by_scope, scope, seed)
         IN  LoopSymbols(self, i, 1, scope, parent_scope_wildcards)
             \o LoopScopes(self, wildcard_imports_by_scope, seed, i + 1)

\* list(self.fully_qualified_consumed_symbols()) in an interpreter with hash seed `seed`.
fully_qualified_consumed_symbols(self, seed) ==
    LoopScopes(self, WildcardImportsByScope(self), seed, 1)

-----------------------------------------------------------------------------
(* Inputs: what the external parser may write, and what it may report.     *)

\* "c.f" is a textual prefix of "c.fb" without being its dot-segment ancestor.
ScopeNames == {<<"c", ".", "f">>, <<"c", ".", "f", "b">>}

\* An unqualified name and one that holds a ".".
SymbolNames == {<<"Q">>, <<"a", ".", "Q">>}

\* Two wildcard imports and a plain one, as the parser writes them.
TransportImports ==
    {[name |-> <<"x">>, isWildcard |-> TRUE],
     [name |-> <<"y">>, isWildcard |-> TRUE],
     [name |-> <<"z">>, isWildcard |-> FALSE]}

ProvidedNames == {<<"P">>, <<"c", ".", "P">>}

ListsUpTo(S, n) == UNION {[1..m -> S] : m \in 0..n}

RECURSIVE DictsUpTo(_, _, _)
\* The insertion-ordered dicts with distinct keys from K and list values over E
\* that hold at most w items (each key and each list element is one item).
DictsUpTo(K, E, w) ==
    {<<>>} \cup
    UNION { UNION { { <<[key |-> k, value |-> v]>> \o rest :
                        rest \in DictsUpTo(K \ {k}, E, w - 1 - Len(v)) } :
                    v \in ListsUpTo(E, w - 1) } :
            k \in K }

RECURSIVE DictItems(_)
DictItems(d) ==
    IF d = <<>> THEN 0 ELSE 1 + Len(d[1].value) + DictItems(Tail(d))

\* The larger of the two item bounds.
ItemBound == IF MaxItems > MaxRoundTripItems THEN MaxItems ELSE MaxRoundTripItems

\* By item budget w: the importsByScope objects, the consumedSymbolsByScope
\* objects and the scopes lists of at most w items.
ImportDicts == [w \in 0..ItemBound |-> DictsUpTo(ScopeNames, TransportImports, w)]

ConsumedDicts == [w \in 0..ItemBound |-> DictsUpTo(ScopeNames, SymbolNames, w)]

ScopeLists == [w \in 0..ItemBound |-> ListsUpTo(ScopeNames, w)]

\* A well-formed transport record.
TransportRecord(ps, pse, ibs, csbs, sc) ==
    [providedSymbols |-> ps,
     providedSymbolsEncoded |-> pse,
     importsByScope |-> ibs,
     consumedSymbolsByScope |-> csbs,
     scopes |-> sc]

\* Records that lack a required field.
MalformedRecords ==
    {[scopes |-> <<>>],
     [providedSymbols |-> <<>>, providedSymbolsEncoded |-> <<>>,
      importsByScope |-> <<>>, consumedSymbolsByScope |-> <<>>]}

\* Captured stdout / stderr of a run that ends with exit_code.  A run that
\* exits with 0 is taken to have printed nothing: the rules never read the
\* streams of such a run.
Streams(exit_code) ==
    IF exit_code = 0 THEN {""} ELSE {"", "scala.meta.parsers.ParseException"}

HashSeeds == 0..MaxSeed

-----------------------------------------------------------------------------
(* The two rules, split at their awaits.                                   *)

Get(product, subject) == [product |-> product, subject |-> subject]

\* Process(description=f"Analyzing {source_files.files[0]}", ...): the text and
\* what is formatted into it.
AnalyzingDescription == [text |-> "Analyzing {}", args |-> <<source_files[1]>>]

\* "Scala source dependency analysis failed."
FailureDescription ==
    [text |-> "Scala source dependency analysis failed.", args |-> <<>>]

Init ==
    /\ source_files \in {[i \in 1..n |-> i] : n \in 0..MaxFiles}
    /\ pc = "analyze"
    /\ requests = <<>>
    /\ fallible_result = None
    /\ error = None
    /\ analysis = None
    /\ hash_seed \in HashSeeds
    /\ observed = <<>>
    /\ transport = None
    /\ debug_json = None

\* A rule that rejects only the empty input.
AnalyzeBegin_empty_only ==
    /\ pc = "analyze"
    /\ IF Len(source_files) = 0
         THEN /\ error' = [type |-> "ValueError",
                           rule |-> "analyze_scala_source_dependencies"]
              /\ pc' = "raised"
              /\ UNCHANGED requests
         ELSE /\ requests' = requests \o
                    <<Get("MaterializedClasspath", "MaterializedClasspathRequest"),
                      Get("Digest", "AddPrefix(processor_classfiles)"),
                      Get("Digest", "AddPrefix(source_files)")>>
              /\ pc' = "await_prerequisites"
              /\ UNCHANGED error
    /\ UNCHANGED <<source_files, fallible_result, analysis, hash_seed, observed,
                   transport, debug_json>>

\* analyze_scala_source_dependencies up to its first await: the check of the
\* number of files, then the MultiGet of the three prerequisites.
AnalyzeBegin ==
    /\ pc = "analyze"
    /\ IF Len(source_files) > 1 \/ Len(source_files) = 0
         THEN /\ error' = [type |-> "ValueError",
                           rule |-> "analyze_scala_source_dependencies"]
              /\ pc' = "raised"
              /\ UNCHANGED requests
         ELSE /\ requests' = requests \o
                    <<Get("MaterializedClasspath", "MaterializedClasspathRequest"),
                      Get("Digest", "AddPrefix(processor_classfiles)"),
                      Get("Digest", "AddPrefix(source_files)")>>
              /\ pc' = "await_prerequisites"
              /\ UNCHANGED error
    /\ UNCHANGED <<source_files, fallible_result, analysis, hash_seed, observed,
                   transport, debug_json>>

\* tool_digest = await Get(Digest, MergeDigests(...))
AnalyzeMergeToolDigest ==
    /\ pc = "await_prerequisites"
    /\ requests' = Append(requests, Get("Digest", "MergeDigests(tool)"))
    /\ pc' = "await_tool_digest"
    /\ UNCHANGED <<source_files, fallible_result, error, analysis, hash_seed,
                   observed, transport, debug_json>>

\* merged_digest = await Get(Digest, MergeDigests(...))
AnalyzeMergeInputDigest ==
    /\ pc = "await_tool_digest"
    /\ requests' = Append(requests, Get("Digest", "MergeDigests(input)"))
    /\ pc' = "await_merged_digest"
    /\ UNCHANGED <<source_files, fallible_result, error, analysis, hash_seed,
                   observed, transport, debug_json>>

\* process_result = await Get(FallibleProcessResult, Process(...))
AnalyzeRunParser ==
    /\ pc = "await_merged_digest"
    /\ requests' = Append(requests, [product |-> "FallibleProcessResult",
                                     subject |-> "Process",
                                     description |-> AnalyzingDescription])
    /\ pc' = "await_process"
    /\ UNCHANGED <<source_files, fallible_result, error, analysis, hash_seed,
                   observed, transport, debug_json>>

\* A rule that asks for a ProcessResult: the engine raises on a non-zero exit.
AnalyzeReturn_strict ==
    /\ pc = "await_process"
    /\ \E exit_code \in 0..MaxExitCode :
       \E stdout \in Streams(exit_code), stderr \in Streams(exit_code) :
          /\ fallible_result' = [exit_code |-> exit_code,
                                 stdout |-> stdout, stderr |-> stderr]
          /\ IF exit_code = 0
               THEN pc' = "analyzed" /\ UNCHANGED error
               ELSE /\ pc' = "raised"
                    /\ error' = [type |-> "ProcessExecutionFailure",
                                 rule |-> "analyze_scala_source_dependencies",
                                 exit_code |-> exit_code,
                                 stdout |-> stdout, stderr |-> stderr,
                                 process_description |-> AnalyzingDescription]
    /\ UNCHANGED <<source_files, requests, analysis, hash_seed, observed,
                   transport, debug_json>>

\* The parser process ends, with any exit code and any captured output, and
\* the rule returns FallibleScalaSourceDependencyAnalysisResult(process_result).
AnalyzeReturn ==
    /\ pc = "await_process"
    /\ \E exit_code \in 0..MaxExitCode :
       \E stdout \in Streams(exit_code), stderr \in Streams(exit_code) :
          fallible_result' = [exit_code |-> exit_code,
                              stdout |-> stdout, stderr |-> stderr]
    /\ pc' = "analyzed"
    /\ UNCHANGED <<source_files, requests, error, analysis, hash_seed, observed,
                   transport, debug_json>>

\* A rule that passes the two streams in the wrong order.
ResolveFallible_swapped ==
    /\ pc = "analyzed"
    /\ IF fallible_result.exit_code = 0
         THEN /\ requests' = Append(requests, Get("DigestContents", "Digest"))
              /\ pc' = "await_contents"
              /\ UNCHANGED error
         ELSE /\ error' = [type |-> "ProcessExecutionFailure",
                           rule |-> "resolve_fallible_result_to_analysis",
                           exit_code |-> fallible_result.exit_code,
                           stdout |-> fallible_result.stderr,
                           stderr |-> fallible_result.stdout,
                           process_description |-> FailureDescription]
              /\ pc' = "raised"
              /\ UNCHANGED requests
    /\ UNCHANGED <<source_files, fallible_result, analysis, hash_seed, observed,
                   transport, debug_json>>

\* resolve_fallible_result_to_analysis up to its await: exit code 0 asks for
\* the output file's contents, any other raises ProcessExecutionFailure.
ResolveFallible ==
    /\ pc = "analyzed"
    /\ IF fallible_result.exit_code = 0
         THEN /\ requests' = Append(requests, Get("DigestContents", "Digest"))
              /\ pc' = "await_contents"
              /\ UNCHANGED error
         ELSE /\ error' = [type |-> "ProcessExecutionFailure",
                           rule |-> "resolve_fallible_result_to_analysis",
                           exit_code |-> fallible_result.exit_code,
                           stdout |-> fallible_result.stdout,
                           stderr |-> fallible_result.stderr,
                           process_description |-> FailureDescription]
              /\ pc' = "raised"
              /\ UNCHANGED requests
    /\ UNCHANGED <<source_files, fallible_result, analysis, hash_seed, observed,
                   transport, debug_json>>

\* json.loads(analysis_contents[0].content) gave d: from_json_dict(d).
LoadRecord(d) ==
    /\ transport' = d
    /\ IF RaisesKeyError(d)
         THEN /\ error' = [type |-> "KeyError",
                           rule |-> "resolve_fallible_result_to_analysis"]
              /\ pc' = "raised"
              /\ UNCHANGED analysis
         ELSE /\ analysis' = from_json_dict(d)
              /\ pc' = "resolved"
              /\ UNCHANGED error

\* resolve_fallible_result_to_analysis after its await: the contents of
\* __source_analysis.json become known here; they are a record that lacks a
\* field, or a well-formed record of at most MaxItems items.
ResolveLoad ==
    /\ pc = "await_contents"
    /\ \/ \E d \in MalformedRecords : LoadRecord(d)
       \/ \E ibs \in ImportDicts[MaxItems] :
          \E csbs \in ConsumedDicts[MaxItems - DictItems(ibs)] :
          \E sc \in ScopeLists[MaxItems - DictItems(ibs) - DictItems(csbs)] :
          \E ps \in ListsUpTo({<<"P">>},
                      MaxItems - DictItems(ibs) - DictItems(csbs) - Len(sc)) :
          \E pse \in ListsUpTo({<<"P">>},
                      MaxItems - DictItems(ibs) - DictItems(csbs) - Len(sc) - Len(ps)) :
             LoadRecord(TransportRecord(ps, pse, ibs, csbs, sc))
    /\ UNCHANGED <<source_files, requests, fallible_result, hash_seed, observed,
                   debug_json>>

\* A consumer iterates analysis.fully_qualified_consumed_symbols() to its end.
ResolveSymbols ==
    /\ pc = "resolved"
    /\ Len(observed) < MaxResolutions
    /\ observed' = Append(observed, fully_qualified_consumed_symbols(analysis, hash_seed))
    /\ UNCHANGED <<source_files, pc, requests, fallible_result, error, analysis,
                   hash_seed, transport, debug_json>>

\* The build runs again in a fresh interpreter: the parser's output is the
\* same (the process result is cached by content), the hash seed is new.
RestartInterpreter ==
    /\ pc = "resolved"
    /\ observed # <<>>
    /\ Len(observed) < MaxResolutions
    /\ \E seed \in HashSeeds \ {hash_seed} : hash_seed' = seed
    /\ UNCHANGED <<source_files, pc, requests, fallible_result, error, analysis,
                   observed, transport, debug_json>>

Next ==
    \/ AnalyzeBegin
    \/ AnalyzeMergeToolDigest
    \/ AnalyzeMergeInputDigest
    \/ AnalyzeRunParser
    \/ AnalyzeReturn
    \/ ResolveFallible
    \/ ResolveLoad
    \/ ResolveSymbols
    \/ RestartInterpreter

Spec == Init /\ [][Next]_vars

-----------------------------------------------------------------------------
(* Round trip: from_json_dict, then to_debug_json_dict, on one record.     *)

InitRoundTrip ==
    /\ \/ transport \in MalformedRecords
       \/ \E ibs \in ImportDicts[MaxRoundTripItems] :
          \E csbs \in ConsumedDicts[MaxRoundTripItems - DictItems(ibs)] :
          \E sc \in ScopeLists[MaxRoundTripItems - DictItems(ibs) - DictItems(csbs)] :
          \E ps \in ListsUpTo(ProvidedNames,
                      MaxRoundTripItems - DictItems(ibs) - DictItems(csbs) - Len(sc)) :
          \E pse \in ListsUpTo(ProvidedNames,
                      MaxRoundTripItems - DictItems(ibs) - DictItems(csbs) - Len(sc) - Len(ps)) :
             transport = TransportRecord(ps, pse, ibs, csbs, sc)
    /\ pc = "from_json_dict"
    /\ source_files = <<>>
    /\ requests = <<>>
    /\ fallible_result = None
    /\ error = None
    /\ analysis = None
    /\ hash_seed = 0
    /\ observed = <<>>
    /\ debug_json = None

Deserialize ==
    /\ pc = "from_json_dict"
    /\ IF RaisesKeyError(transport)
         THEN /\ error' = [type |-> "KeyError", rule |-> "from_json_dict"]
              /\ pc' = "raised"
              /\ UNCHANGED analysis
         ELSE /\ analysis' = from_json_dict(transport)
              /\ pc' = "to_debug_json_dict"
              /\ UNCHANGED error
    /\ UNCHANGED <<source_files, requests, fallible_result, hash_seed, observed,
                   transport, debug_json>>

Serialize ==
    /\ pc = "to_debug_json_dict"
    /\ debug_json' = to_debug_json_dict(analysis)
    /\ pc' = "serialized"
    /\ UNCHANGED <<source_files, requests, fallible_result, error, analysis,
                   hash_seed, observed, transport>>

NextRoundTrip == Deserialize \/ Serialize

SpecRoundTrip == InitRoundTrip /\ [][NextRoundTrip]_vars

-----------------------------------------------------------------------------
(* Properties.  They are stated over the analysis and the observed         *)
(* candidate sequences, without the resolver's own operators.              *)

ConsumedItems == 1..Len(analysis.consumed_symbols_by_scope)

ImportItems == 1..Len(analysis.imports_by_scope)

ConsumingScope(i) == analysis.consumed_symbols_by_scope[i].key

ConsumedIn(i) == Range(analysis.consumed_symbols_by_scope[i].value)

DeclaringScope(a) == analysis.imports_by_scope[a].key

\* The wildcard imports declared in the a-th scope of imports_by_scope.
WildcardsOf(a) == {w \in Range(analysis.imports_by_scope[a].value) : w.is_wildcard}

\* The wildcard imports declared in some scope that is a textual prefix of S.
AncestorWildcards(S) ==
    UNION {WildcardsOf(a) : a \in {b \in ImportItems : StartsWith(S, DeclaringScope(b))}}

Observations == 1..Len(observed)

\* C1: every symbol consumed in a scope S is offered under every wildcard import
\* declared in a scope whose name is a raw textual prefix of S (S itself included).
C1_WildcardCandidates ==
    \A k \in Observations : \A i \in ConsumedItems : \A sym \in ConsumedIn(i) :
      \A a \in ImportItems : \A w \in WildcardsOf(a) :
        StartsWith(ConsumingScope(i), DeclaringScope(a))
            => Qualify(w.name, sym) \in Range(observed[k])

\* C1 witness: a symbol consumed in "c.fb" got a wildcard declared in "c.f".
C1_Witness ==
    /\ observed # <<>>
    /\ \E i \in ConsumedItems : \E sym \in ConsumedIn(i) :
       \E a \in ImportItems : \E w \in WildcardsOf(a) :
          /\ ConsumingScope(i) = <<"c", ".", "f", "b">>
          /\ DeclaringScope(a) = <<"c", ".", "f">>
          /\ Qualify(w.name, sym) \in Range(observed[1])

\* C2: every consumed symbol is offered under every scope of the scopes set,
\* whichever scope consumed it.
C2_EveryScopeQualifies ==
    \A k \in Observations : \A i \in ConsumedItems : \A sym \in ConsumedIn(i) :
      \A T \in Range(analysis.scopes) :
        Qualify(T, sym) \in Range(observed[k])

\* C2 witness: the consuming scope is not in scopes, and the symbol is offered
\* under a scope that is.
C2_Witness ==
    /\ observed # <<>>
    /\ \E i \in ConsumedItems : \E sym \in ConsumedIn(i) :
       \E T \in Range(analysis.scopes) :
          /\ ConsumingScope(i) \notin Range(analysis.scopes)
          /\ Qualify(T, sym) \in Range(observed[1])

\* C3: a consumed symbol is offered unqualified when scopes is empty or the
\* symbol holds a ".".
C3_BareSymbol ==
    \A k \in Observations : \A i \in ConsumedItems : \A sym \in ConsumedIn(i) :
        (analysis.scopes = <<>> \/ ContainsDot(sym))
            => sym \in Range(observed[k])

\* C3 witness: scopes is not empty and a dotted symbol is offered unqualified.
C3_Witness ==
    /\ observed # <<>>
    /\ analysis.scopes # <<>>
    /\ \E i \in ConsumedItems : \E sym \in ConsumedIn(i) :
          ContainsDot(sym) /\ sym \in Range(observed[1])

C6_RejectsBeforeAnyRequest ==
    /\ Len(source_files) # 1 =>
          /\ requests = <<>>
          /\ fallible_result = None
          /\ \/ pc = "analyze"
             \/ /\ pc = "raised"
                /\ error.type = "ValueError"
                /\ error.rule = "analyze_scala_source_dependencies"
    /\ Len(source_files) = 1 =>
          /\ error.type # "ValueError"
          /\ pc # "analyze" => requests # <<>>

\* C6 witness: the rule has raised on more than one file.
C6_Witness ==
    /\ Len(source_files) > 1
    /\ pc = "raised"
    /\ error.type = "ValueError"

\* C7: the first rule returns the wrapped process result whatever the exit
\* code; the execution error comes from the second rule, exactly for a non-zero
\* exit code; exit code 0 leads to deserialisation and never to that error.
C7_FailureDeferred ==
    /\ pc = "analyzed" => error = None /\ fallible_result # None
    /\ error.type = "ProcessExecutionFailure" =>
          /\ error.rule = "resolve_fallible_result_to_analysis"
          /\ fallible_result # None
          /\ fallible_result.exit_code # 0
    /\ (fallible_result # None /\ pc # "analyzed") =>
          (fallible_result.exit_code # 0 <=> error.type = "ProcessExecutionFailure")
    /\ (fallible_result # None /\ fallible_result.exit_code = 0
            /\ pc \notin {"analyzed", "await_contents"}) =>
          \/ pc = "resolved" /\ analysis = from_json_dict(transport)
          \/ pc = "raised" /\ error.type = "KeyError"

\* C7 witness: the first rule has returned a result with a non-zero exit code.
C7_Witness ==
    /\ pc = "analyzed"
    /\ fallible_result.exit_code # 0
    /\ error = None

\* The index of the first occurrence of x in xs.
FirstIndex(xs, x) ==
    CHOOSE i \in 1..Len(xs) : xs[i] = x /\ \A j \in 1..(i - 1) : xs[j] # x

\* out lists the members of xs once each, in the order of their first appearance.
InFirstAppearanceOrder(out, xs) ==
    /\ Range(out) = Range(xs)
    /\ \A i \in 1..Len(out) : \A j \in 1..Len(out) :
          i < j => /\ out[i] # out[j]
                   /\ FirstIndex(xs, out[i]) < FirstIndex(xs, out[j])

\* out lists the members of xs once each, in ascending order.
InSortedOrder(out, xs) ==
    /\ Range(out) = Range(xs)
    /\ \A i \in 1..Len(out) : \A j \in 1..Len(out) :
          i < j => StrLess(out[i], out[j])

\* C8: from_json_dict then to_debug_json_dict keeps the content of a record that
\* has the five fields: provided symbols, encoded provided symbols and scopes in
\* order of first appearance, every scope's imports as the same (name, flag)
\* pairs in declaration order, every scope's consumed symbols as the same set
\* of names in sorted order.
C8_RoundTrip ==
    pc = "serialized" =>
      /\ InFirstAppearanceOrder(debug_json.provided_symbols, transport.providedSymbols)
      /\ InFirstAppearanceOrder(debug_json.provided_symbols_encoded,
                                transport.providedSymbolsEncoded)
      /\ InFirstAppearanceOrder(debug_json.scopes, transport.scopes)
      /\ Len(debug_json.imports_by_scope) = Len(transport.importsByScope)
      /\ \A i \in 1..Len(transport.importsByScope) :
            LET before == transport.importsByScope[i]
                after == debug_json.imports_by_scope[i]
            IN  /\ after.key = before.key
                /\ Len(after.value) = Len(before.value)
                /\ \A j \in 1..Len(before.value) :
                      /\ after.value[j].name = before.value[j].name
                      /\ after.value[j].is_wildcard = before.value[j].isWildcard
      /\ Len(debug_json.consumed_symbols_by_scope) = Len(transport.consumedSymbolsByScope)
      /\ \A i \in 1..Len(transport.consumedSymbolsByScope) :
            LET before == transport.consumedSymbolsByScope[i]
                after == debug_json.consumed_symbols_by_scope[i]
            IN  /\ after.key = before.key
                /\ InSortedOrder(after.value, before.value)

\* C8 witness: a record whose consumed symbols arrive out of order has been
\* serialised, and another field held a repeat.
C8_Witness ==
    /\ pc = "serialized"
    /\ \E i \in 1..Len(transport.consumedSymbolsByScope) :
          /\ transport.consumedSymbolsByScope[i].value = <<<<"a", ".", "Q">>, <<"Q">>>>
          /\ debug_json.consumed_symbols_by_scope[i].value = <<<<"Q">>, <<"a", ".", "Q">>>>
    /\ Len(debug_json.scopes) < Len(transport.scopes)

RECURSIVE VisitsFrom(_)
\* The (consuming scope, symbol) pairs from the i-th consuming scope on, in order.
VisitsFrom(i) ==
    IF i > Len(analysis.consumed_symbols_by_scope) THEN <<>>
    ELSE [j \in 1..Len(analysis.consumed_symbols_by_scope[i].value) |->
            [item |-> i, symbol |-> analysis.consumed_symbols_by_scope[i].value[j]]]
         \o VisitsFrom(i + 1)

\* How many candidates one visit of a symbol consumed in the i-th scope gives.
CandidatesPerVisit(i, sym) ==
    Cardinality(Range(analysis.scopes))
    + (IF analysis.scopes = <<>> \/ ContainsDot(sym) THEN 1 ELSE 0)
    + Cardinality(AncestorWildcards(ConsumingScope(i)))

\* c is sym, or sym behind a qualifier and a ".".
IsCandidateFor(c, sym) ==
    \/ c = sym
    \/ /\ Len(c) > Len(sym) + 1
       /\ SubSeq(c, Len(c) - Len(sym), Len(c)) = Dot \o sym

RECURSIVE MadeOfVisits(_, _)
\* o is one block of candidates per visit, in the order of the visits.
MadeOfVisits(o, visits) ==
    IF visits = <<>> THEN o = <<>>
    ELSE LET n == CandidatesPerVisit(visits[1].item, visits[1].symbol)
         IN  /\ Len(o) >= n
             /\ \A p \in 1..n : IsCandidateFor(o[p], visits[1].symbol)
             /\ MadeOfVisits(SubSeq(o, n + 1, Len(o)), Tail(visits))

\* C9: the resolver never raises and its sequence is finite: it ends after one
\* visit of each symbol of each consuming scope, whatever scopes and imports hold.
C9_TotalAndFinite ==
    /\ observed # <<>> => error = None /\ pc = "resolved"
    /\ \A k \in Observations : MadeOfVisits(observed[k], VisitsFrom(1))

\* C9 witness: scopes is empty, no import is a wildcard, two scopes consume,
\* one of them declares no import, and the sequence has one candidate per symbol.
C9_Witness ==
    /\ observed # <<>>
    /\ analysis.scopes = <<>>
    /\ \A a \in ImportItems : WildcardsOf(a) = {}
    /\ Len(analysis.consumed_symbols_by_scope) = 2
    /\ \E i \in ConsumedItems : \A a \in ImportItems : DeclaringScope(a) # ConsumingScope(i)
    /\ observed[1] # <<>>
    /\ Len(observed[1]) = Len(VisitsFrom(1))

\* The imports that can matter: per declaring scope that is a textual prefix of
\* some consuming scope, its wildcard imports.
WithoutIdleImports ==
    [analysis EXCEPT !.imports_by_scope =
        LET kept(a) ==
              IF \E i \in ConsumedItems : StartsWith(ConsumingScope(i), DeclaringScope(a))
                THEN SelectSeq(analysis.imports_by_scope[a].value, IsWildcard)
                ELSE <<>>
        IN  SelectSeq([a \in ImportItems |-> [key |-> DeclaringScope(a), value |-> kept(a)]],
                      HasImports)]

\* C10: every candidate is T.sym with T in scopes, or sym itself (only when
\* scopes is empty or sym holds a "."), or w.name.sym with w a wildcard import
\* declared in a textual prefix of the scope that consumed sym.  So the other
\* imports change nothing, and with scopes not empty every candidate holds a ".".
C10_OnlyDocumentedForms ==
    \A k \in Observations :
      /\ \A p \in 1..Len(observed[k]) :
            \E i \in ConsumedItems : \E sym \in ConsumedIn(i) :
               \/ \E T \in Range(analysis.scopes) : observed[k][p] = Qualify(T, sym)
               \/ /\ observed[k][p] = sym
                  /\ analysis.scopes = <<>> \/ ContainsDot(sym)
               \/ \E w \in AncestorWildcards(ConsumingScope(i)) :
                     observed[k][p] = Qualify(w.name, sym)
      /\ analysis.scopes # <<>> =>
            \A p \in 1..Len(observed[k]) : ContainsDot(observed[k][p])
      /\ \E seed \in HashSeeds :
            observed[k] = fully_qualified_consumed_symbols(WithoutIdleImports, seed)

\* C10 witness: a plain import sits in a scope that prefixes a consuming scope,
\* and its name qualifies no candidate.
C10_Witness ==
    /\ observed # <<>>
    /\ observed[1] # <<>>
    /\ \E i \in ConsumedItems : \E a \in ImportItems :
          /\ StartsWith(ConsumingScope(i), DeclaringScope(a))
          /\ \E w \in Range(analysis.imports_by_scope[a].value) :
                /\ ~w.is_wildcard
                /\ \A sym \in ConsumedIn(i) : Qualify(w.name, sym) \notin Range(observed[1])

=============================================================================
